---- MODULE Spec2Model ----
(***************************************************************************)
(* Model of target_azureblobstorage.py: the message loop persist_lines,    *)
(* the local staging directory, the blob container, and emit_state.        *)
(* A process run reads messages one at a time; the staging directory and   *)
(* the container outlive a run, the local variables of persist_lines do    *)
(* not.                                                                     *)
(***************************************************************************)
EXTENDS Integers, Sequences, FiniteSets, TLC

\* ------------------------------------------------------------- bounds
MaxMsgs == 5    \* messages processed over all runs
MaxRuns == 2    \* process runs (the first run and restarts)
MaxItems == 2   \* entries of a mapping given to flatten

\* ------------------------------------------------------------ the data
Streams == {"users", "orders"}

\* A JSON object is a sequence of <<key, value>> pairs: Python dicts keep
\* insertion order.  Numbers are counted in thousandths (10 is 0.01).
RecIdName == << <<"id", 10>>, <<"name", 20>> >>
RecNameId == << <<"name", 30>>, <<"id", 15>> >>
RecName   == << <<"name", 50>> >>
Records == {RecIdName, RecNameId, RecName}

\* list(record.keys())
RecordKeys(record) == [i \in 1..Len(record) |-> record[i][1]]

\* [record[key] for key in record]
Lookup(record, key) ==
    LET i == CHOOSE j \in 1..Len(record) : record[j][1] = key IN record[i][2]
RecordValues(record) ==
    [i \in 1..Len(record) |-> Lookup(record, RecordKeys(record)[i])]

HasKey(record, key) == \E i \in 1..Len(record) : record[i][1] = key

\* Schemas: the keys a record must carry and the keys declared multipleOf 0.01
SchemaAny    == [required |-> {}, multipleOf |-> {}]
SchemaStrict == [required |-> {"id"}, multipleOf |-> {"id"}]
Schemas == {SchemaAny, SchemaStrict}

\* Draft4Validator(schema): the validator is built from the schema alone
Draft4Validator(schema) == [schema |-> schema]

\* The classes of ValidationError validator.validate(record) can raise:
\* "precision" is the error whose text holds "is not a multiple of 0.01".
ValidationErrors(validator, record) ==
    {"other" : k \in {k \in validator.schema.required : ~HasKey(record, k)}}
    \cup {"precision" : k \in {k \in validator.schema.multipleOf :
                                    HasKey(record, k) /\ Lookup(record, k) % 10 # 0}}

\* What validate can do: return, or raise one of its errors
Verdicts(validator, record) ==
    IF ValidationErrors(validator, record) = {} THEN {"ok"}
    ELSE ValidationErrors(validator, record)

\* STATE values: currently_syncing names a stream, is null, or is missing
StateValues ==
    [currently_syncing : {"users", "null"}, bookmark : {1, 2}]
    \cup {[currently_syncing |-> "missing", bookmark |-> 1]}
Truthy(v) == v # "null"

None == <<>>
Some(v) == <<v>>
Unbound == <<>>
EmptyMap == [x \in {} |-> x]

\* filename = o['stream'] + '.csv'
CsvName(stream) == <<stream, ".csv">>

Put(m, k, v) == [x \in DOMAIN m \cup {k} |-> IF x = k THEN v ELSE m[x]]
\* The file emptied and left in the directory
Remove_truncate(m, k) == [x \in DOMAIN m |-> IF x = k THEN <<>> ELSE m[x]]

\* os.remove(file_path)
Remove(m, k) == [x \in DOMAIN m \ {k} |-> m[x]]
Perms(S) ==
    {s \in [1..Cardinality(S) -> S] :
        \A i, j \in 1..Cardinality(S) : i # j => s[i] # s[j]}

\* ----------------------------------------------------------- the state
VARIABLES
    pc,             \* "run": in the loop; "aborted": an exception left it; "done": main returned
    state,          \* persist_lines: state
    schemas,        \* persist_lines: schemas
    key_properties, \* persist_lines: key_properties
    validators,     \* persist_lines: validators
    filename,       \* persist_lines: filename, Unbound until a RECORD assigns it
    dirExists,      \* os.path.exists(parent_dir)
    staging,        \* the files of parent_dir: file name -> rows
    durable,        \* the blobs of the container: blob name -> rows
    stdout,         \* the lines emit_state wrote in this run
    last,           \* the message the last step processed, with its inputs
    declared,       \* streams of the SCHEMA messages processed in this run
    lastState,      \* value of the last STATE message processed in this run
    recordAfter,    \* a RECORD was accepted after that STATE message
    sinceFlush,     \* per stream: records accepted in this run since a flush last took its file
    sinceRemoved,   \* per stream: records accepted since its staging file was last absent
    lastSchema,     \* per stream: schema of the last SCHEMA message for it in this run
    promoted,       \* data rows uploaded by the flushes that completed
    flushFailed,    \* some flush raised
    nmsgs,          \* messages processed over all runs
    nruns,          \* runs started
    fl_in,          \* flatten: the mapping d it is given
    fl_out,         \* flatten: flatten(d)
    fl_again,       \* flatten: flatten(flatten(d))
    fl_pc           \* flatten: "idle", "in", "flat", "again"

locals == <<state, schemas, key_properties, validators, filename>>
world  == <<dirExists, staging, durable>>
ghosts == <<declared, lastState, recordAfter, sinceFlush, sinceRemoved, lastSchema,
            promoted, flushFailed>>
flatv  == <<fl_in, fl_out, fl_again, fl_pc>>
mainv  == <<pc, locals, world, stdout, last, ghosts, nmsgs, nruns>>
vars   == <<mainv, flatv>>

NoRecords == [s \in Streams |-> <<>>]

NoEvent ==
    [type |-> "none", hasStream |-> FALSE, stream |-> "", record |-> <<>>,
     value |-> None, verdict |-> "none", storageOk |-> TRUE, uploaded |-> {},
     hasKeyProperties |-> TRUE, failOp |-> "none"]

MainInit ==
    /\ pc = "run"
    /\ state = None
    /\ schemas = EmptyMap
    /\ key_properties = EmptyMap
    /\ validators = EmptyMap
    /\ filename = Unbound
    /\ dirExists = FALSE
    /\ staging = EmptyMap
    /\ durable = EmptyMap
    /\ stdout = <<>>
    /\ last = NoEvent
    /\ declared = {}
    /\ lastState = None
    /\ recordAfter = FALSE
    /\ sinceFlush = NoRecords
    /\ sinceRemoved = NoRecords
    /\ lastSchema = EmptyMap
    /\ promoted = {}
    /\ flushFailed = FALSE
    /\ nmsgs = 0
    /\ nruns = 1

Init ==
    /\ MainInit
    /\ fl_in = <<>>
    /\ fl_out = <<>>
    /\ fl_again = <<>>
    /\ fl_pc = "idle"

\* A message is read from the input: for line in lines
Reading == pc = "run" /\ nmsgs < MaxMsgs

Event(type) == [NoEvent EXCEPT !.type = type]

\* The exception logged and the loop going on
Abort_logged(ev) ==
    /\ last' = ev
    /\ nmsgs' = nmsgs + 1
    /\ UNCHANGED <<pc, locals, world, stdout, ghosts, nruns, flatv>>

\* The checkpoint emitted on the way out of an exception
Abort_emitting(ev) ==
    /\ pc' = "aborted"
    /\ stdout' = IF state # None THEN <<[json |-> state[1]]>> ELSE <<>>
    /\ last' = ev
    /\ nmsgs' = nmsgs + 1
    /\ UNCHANGED <<locals, world, ghosts, nruns, flatv>>

\* An exception leaves persist_lines and main: nothing after it runs
Abort(ev) ==
    /\ pc' = "aborted"
    /\ last' = ev
    /\ nmsgs' = nmsgs + 1
    /\ UNCHANGED <<locals, world, stdout, ghosts, nruns, flatv>>

\* json.loads(line) raises JSONDecodeError
ParseError == Reading /\ Abort(Event("unparseable"))

\* 'type' not in o
MissingType == Reading /\ Abort(Event("missing"))

\* t is none of RECORD, STATE, SCHEMA, ACTIVATE_VERSION
UnknownType == Reading /\ Abort(Event("UNKNOWN"))

\* ------------------------------------------------------------- RECORD
\* o['stream'] not in schemas
SchemaKnown(stream) == stream \in DOMAIN schemas

\* The decimal-precision error raised again instead of logged
Reraised_precision(verdict) == verdict \in {"exception", "precision"}

\* except ValidationError: (logged or dropped) / except Exception: raise e
Reraised(verdict) == verdict = "exception"

\* The file opened "w+" and the header written for every record
WriteHeader_always(files, path, record) == Put(files, path, <<RecordKeys(record)>>)

\* if not os.path.exists(stream_path): open(stream_path, "w+"), writerow(keys)
WriteHeader(files, path, record) ==
    IF path \notin DOMAIN files THEN Put(files, path, <<RecordKeys(record)>>)
    ELSE files

\* open(stream_path, "a"), writerow([record[key] for key in record])
AppendRow(files, path, record) ==
    Put(files, path, Append(files[path], RecordValues(record)))

\* The checkpoint left as it was by a RECORD
StateAfterRecord_kept == state

\* state = None, at the end of the RECORD branch
StateAfterRecord == None

RecordMsg ==
    /\ Reading
    /\ \E hasStream \in BOOLEAN, stream \in Streams, hasRecord \in BOOLEAN,
          record \in Records, listOk \in BOOLEAN :
        LET known == hasStream /\ SchemaKnown(stream)
            verdicts == IF ~known THEN {"none"}
                        ELSE IF ~hasRecord THEN {"exception"}
                        ELSE Verdicts(validators[stream], record)
        IN \E verdict \in verdicts :
            LET validated == known /\ ~Reraised(verdict)
                ev == [type |-> "RECORD", hasStream |-> hasStream,
                       stream |-> IF hasStream THEN stream ELSE "",
                       record |-> IF hasRecord THEN record ELSE <<>>,
                       value |-> None, verdict |-> verdict,
                       storageOk |-> listOk, uploaded |-> {},
                       hasKeyProperties |-> TRUE, failOp |-> "none"]
                path == CsvName(stream)
            IN /\ hasStream \/ (stream = "users" /\ ~hasRecord)
               /\ hasRecord \/ record = RecName
               /\ validated \/ listOk
               /\ validated => hasRecord
               /\ IF ~validated \/ ~listOk
                  THEN Abort(ev)
                  ELSE /\ filename' = path
                       /\ dirExists' = TRUE
                       /\ staging' = AppendRow(WriteHeader(staging, path, record),
                                               path, record)
                       /\ state' = StateAfterRecord
                       /\ recordAfter' = TRUE
                       /\ sinceFlush' = [sinceFlush EXCEPT ![stream] = Append(@, record)]
                       /\ sinceRemoved' = [sinceRemoved EXCEPT ![stream] = Append(@, record)]
                       /\ last' = ev
                       /\ nmsgs' = nmsgs + 1
                       /\ UNCHANGED <<pc, schemas, key_properties, validators, durable,
                                      stdout, declared, lastState, lastSchema,
                                      promoted, flushFailed, nruns, flatv>>

\* -------------------------------------------------------------- STATE
\* The flush decided by the directory alone
ShouldFlush_always(value) == dirExists

\* not state['currently_syncing'] and os.path.exists(parent_dir)
ShouldFlush(value) == ~Truthy(value.currently_syncing) /\ dirExists

\* The blob name create_blob_from_path is given for the file at path
BlobName(path) == filename

\* The file removed before its upload
RECURSIVE FlushLoop_removeFirst(_, _, _, _)
FlushLoop_removeFirst(order, i, acc, env) ==
    IF i > Len(order) THEN acc
    ELSE LET path == order[i] IN
        IF filename = Unbound
        THEN [acc EXCEPT !.raised = TRUE]
        ELSE IF env.failAt = i /\ env.failOp = "remove"
        THEN [acc EXCEPT !.raised = TRUE]
        ELSE LET gone == [acc EXCEPT !.staging = [x \in DOMAIN @ \ {path} |-> @[x]],
                                     !.removed = @ \cup {path}]
             IN IF env.failAt = i /\ env.failOp = "upload"
                THEN [gone EXCEPT !.raised = TRUE]
                ELSE FlushLoop_removeFirst(order, i + 1,
                        [gone EXCEPT !.durable = Put(@, filename, acc.staging[path]),
                                     !.uploaded = @ \cup {path}], env)

\* for _file in os.listdir(parent_dir): create_blob_from_path(...); os.remove(...)
\* env names the call that fails, if one does: failAt = 0 means none fails.
RECURSIVE FlushLoop(_, _, _, _)
FlushLoop(order, i, acc, env) ==
    IF i > Len(order) THEN acc
    ELSE LET path == order[i] IN
        IF BlobName(path) = Unbound
        THEN [acc EXCEPT !.raised = TRUE]
        ELSE IF env.failAt = i /\ env.failOp = "upload"
        THEN [acc EXCEPT !.raised = TRUE]
        ELSE LET up == [acc EXCEPT
                          !.durable = Put(@, BlobName(path), acc.staging[path]),
                          !.uploaded = @ \cup {path}]
                 gone == [up EXCEPT !.staging = Remove(@, path),
                                    !.removed = @ \cup {path}]
             IN IF env.failAt = i /\ env.failOp = "remove"
                THEN [up EXCEPT !.raised = TRUE]
                ELSE FlushLoop(order, i + 1, gone, env)

\* The rows of a file after its header
DataRows(file) == {file[i] : i \in 2..Len(file)}

\* The first checkpoint kept, later ones dropped
Observe_first(value) == IF state = None THEN Some(value) ELSE state

\* state = o['value']
Observe(value) == Some(value)

StateMsg ==
    /\ Reading
    /\ UNCHANGED flatv
    /\ \E value \in StateValues :
        IF value.currently_syncing = "missing"
        THEN /\ state' = Observe(value)
             /\ lastState' = Some(value)
             /\ recordAfter' = FALSE
             /\ pc' = "aborted"
             /\ last' = [Event("STATE") EXCEPT !.value = Some(value)]
             /\ nmsgs' = nmsgs + 1
             /\ UNCHANGED <<schemas, key_properties, validators, filename, world,
                            stdout, declared, sinceFlush, sinceRemoved, lastSchema,
                            promoted, flushFailed, nruns>>
        ELSE IF ~ShouldFlush(value)
        THEN /\ state' = Observe(value)
             /\ lastState' = Some(value)
             /\ recordAfter' = FALSE
             /\ last' = [Event("STATE") EXCEPT !.value = Some(value)]
             /\ nmsgs' = nmsgs + 1
             /\ UNCHANGED <<pc, schemas, key_properties, validators, filename, world,
                            stdout, declared, sinceFlush, sinceRemoved, lastSchema,
                            promoted, flushFailed, nruns>>
        ELSE \E order \in Perms(DOMAIN staging), failAt \in 0..Cardinality(DOMAIN staging),
                failOp \in {"upload", "remove"} :
            LET env == [failAt |-> failAt, failOp |-> failOp]
                res == FlushLoop(order, 1,
                                 [staging |-> staging, durable |-> durable,
                                  uploaded |-> {}, removed |-> {},
                                  raised |-> FALSE], env)
            IN /\ failAt = 0 => failOp = "upload"
               /\ state' = Observe(value)
               /\ lastState' = Some(value)
               /\ recordAfter' = FALSE
               /\ staging' = res.staging
               /\ durable' = res.durable
               /\ pc' = IF res.raised THEN "aborted" ELSE "run"
               /\ sinceFlush' = [s \in Streams |->
                                    IF CsvName(s) \in res.removed
                                    THEN <<>> ELSE sinceFlush[s]]
               /\ sinceRemoved' = [s \in Streams |->
                                      IF CsvName(s) \in res.removed
                                      THEN <<>> ELSE sinceRemoved[s]]
               /\ promoted' = IF res.raised THEN promoted
                              ELSE promoted \cup UNION {DataRows(staging[path]) :
                                                            path \in res.uploaded}
               /\ flushFailed' = (flushFailed \/ res.raised)
               /\ last' = [Event("STATE") EXCEPT
                              !.value = Some(value),
                              !.storageOk = (failAt = 0),
                              !.failOp = IF failAt = 0 THEN "none" ELSE failOp,
                              !.uploaded = res.uploaded]
               /\ nmsgs' = nmsgs + 1
               /\ UNCHANGED <<schemas, key_properties, validators, filename, dirExists,
                              stdout, declared, lastSchema, nruns>>

\* ------------------------------------------------------------- SCHEMA
\* The schema of the first SCHEMA message kept, later ones dropped
DeclareSchema_first(stream, schema) ==
    IF stream \in DOMAIN schemas THEN schemas ELSE Put(schemas, stream, schema)

\* schemas[stream] = o['schema']
DeclareSchema(stream, schema) == Put(schemas, stream, schema)

SchemaMsg ==
    /\ Reading
    /\ \E hasStream \in BOOLEAN, stream \in Streams, schema \in Schemas,
          hasKeyProperties \in BOOLEAN :
        LET ev == [Event("SCHEMA") EXCEPT !.hasStream = hasStream,
                                          !.stream = IF hasStream THEN stream ELSE "",
                                          !.hasKeyProperties = hasKeyProperties]
        IN /\ hasStream \/ (stream = "users" /\ schema = SchemaAny /\ hasKeyProperties)
           /\ IF ~hasStream
              THEN Abort(ev)
              ELSE /\ schemas' = DeclareSchema(stream, schema)
                   /\ validators' = Put(validators, stream, Draft4Validator(schema))
                   /\ key_properties' = IF hasKeyProperties
                                        THEN Put(key_properties, stream, <<"id">>)
                                        ELSE key_properties
                   /\ pc' = IF hasKeyProperties THEN "run" ELSE "aborted"
                   /\ declared' = declared \cup {stream}
                   /\ lastSchema' = Put(lastSchema, stream, schema)
                   /\ last' = ev
                   /\ nmsgs' = nmsgs + 1
                   /\ UNCHANGED <<state, filename, world, stdout, lastState, recordAfter,
                                  sinceFlush, sinceRemoved, promoted, flushFailed,
                                  nruns, flatv>>

\* --------------------------------------------------- ACTIVATE_VERSION
ActivateVersion ==
    /\ Reading
    /\ last' = Event("ACTIVATE_VERSION")
    /\ nmsgs' = nmsgs + 1
    /\ UNCHANGED <<pc, locals, world, stdout, ghosts, nruns, flatv>>

\* ------------------------------------------------- the end of the input
\* emit_state(state): one line when state is not None
emit_state(st) == IF st # None THEN <<[json |-> st[1]]>> ELSE <<>>

\* return state; main: emit_state(state)
EndOfInput ==
    /\ pc = "run"
    /\ pc' = "done"
    /\ stdout' = emit_state(state)
    /\ last' = Event("EOF")
    /\ UNCHANGED <<locals, world, ghosts, nmsgs, nruns, flatv>>

\* The registry and the checkpoint kept in module-level variables
NewLocals_global ==
    [state |-> state, schemas |-> schemas, key_properties |-> key_properties,
     validators |-> validators]

\* state = None; schemas = {}; key_properties = {}; validators = {}
NewLocals ==
    [state |-> None, schemas |-> EmptyMap, key_properties |-> EmptyMap,
     validators |-> EmptyMap]

\* The next run of the process: the locals of persist_lines are new, the
\* staging directory and the container are as the last run left them.
Restart ==
    /\ pc \in {"aborted", "done"}
    /\ nruns < MaxRuns
    /\ nruns' = nruns + 1
    /\ pc' = "run"
    /\ state' = NewLocals.state
    /\ schemas' = NewLocals.schemas
    /\ key_properties' = NewLocals.key_properties
    /\ validators' = NewLocals.validators
    /\ filename' = Unbound
    /\ stdout' = <<>>
    /\ last' = NoEvent
    /\ declared' = {}
    /\ lastState' = None
    /\ recordAfter' = FALSE
    /\ sinceFlush' = NoRecords
    /\ lastSchema' = EmptyMap
    /\ UNCHANGED <<world, sinceRemoved, promoted, flushFailed, nmsgs, flatv>>

Next ==
    \/ ParseError
    \/ MissingType
    \/ UnknownType
    \/ RecordMsg
    \/ StateMsg
    \/ SchemaMsg
    \/ ActivateVersion
    \/ EndOfInput
    \/ Restart

Spec == Init /\ [][Next]_vars

\* ------------------------------------------------------------ flatten
\* A value is tagged with its Python type: a number, a str, a list or a
\* mapping (a sequence of <<key, value>> pairs, in insertion order).
Num(n)      == [t |-> "num", num |-> n, items |-> <<>>, pairs |-> <<>>]
List(items) == [t |-> "list", num |-> 0, items |-> items, pairs |-> <<>>]
Map(pairs)  == [t |-> "map", num |-> 0, items |-> <<>>, pairs |-> pairs]

\* str(v) of a list: the text of the list
Str(value) == [t |-> "str", num |-> 0, items |-> value.items, pairs |-> <<>>]

\* new_key = parent_key + sep + k, whatever parent_key is
NewKey_always(parent_key, k) == parent_key \o "__" \o k

\* new_key = parent_key + sep + k if parent_key else k
NewKey(parent_key, k) == IF parent_key # "" THEN parent_key \o "__" \o k ELSE k

\* dict(items): a key keeps the place of its first item and the value of its last
RECURSIVE Dict(_)
Dict(items) ==
    IF items = <<>> THEN <<>>
    ELSE LET rest == Dict(SubSeq(items, 1, Len(items) - 1))
             item == items[Len(items)]
         IN IF \E i \in 1..Len(rest) : rest[i][1] = item[1]
            THEN [i \in 1..Len(rest) |-> IF rest[i][1] = item[1] THEN item ELSE rest[i]]
            ELSE Append(rest, item)

\* flatten(d, parent_key, sep='__')
RECURSIVE flatten(_, _)
RECURSIVE FlattenItems(_, _)
FlattenItems(d, parent_key) ==
    IF d = <<>> THEN <<>>
    ELSE LET k == d[1][1]
             v == d[1][2]
             new_key == NewKey(parent_key, k)
             items == IF v.t = "map" THEN flatten(v.pairs, new_key)
                      ELSE << <<new_key, IF v.t = "list" THEN Str(v) ELSE v>> >>
         IN items \o FlattenItems(Tail(d), parent_key)
flatten(d, parent_key) == Dict(FlattenItems(d, parent_key))

\* The mappings flatten is given: up to MaxItems entries with distinct keys
FlatKeys == {"a", "b", "a__b"}
MapsOver(keys, values) ==
    UNION {{m \in [1..n -> keys \X values] :
               \A i, j \in 1..n : i # j => m[i][1] # m[j][1]} : n \in 0..MaxItems}
Leaves == {Num(1), List(<<1>>)}
InnerMaps == {Map(m) : m \in MapsOver({"a", "b"}, Leaves)}
NestedRecords == MapsOver(FlatKeys, Leaves \cup InnerMaps)

InitFlatten ==
    /\ MainInit
    /\ fl_in \in NestedRecords
    /\ fl_out = <<>>
    /\ fl_again = <<>>
    /\ fl_pc = "in"

\* flattened_record = flatten(o['record'])
FlattenRecord ==
    /\ fl_pc = "in"
    /\ fl_out' = flatten(fl_in, "")
    /\ fl_pc' = "flat"
    /\ UNCHANGED <<mainv, fl_in, fl_again>>

\* flatten applied to its own result
FlattenAgain ==
    /\ fl_pc = "flat"
    /\ fl_again' = flatten(fl_out, "")
    /\ fl_pc' = "again"
    /\ UNCHANGED <<mainv, fl_in, fl_out>>

NextFlatten == FlattenRecord \/ FlattenAgain

SpecFlatten == InitFlatten /\ [][NextFlatten]_vars

\* ====================================================== the claims
\* A step that processed a message
MsgStep == nmsgs' = nmsgs + 1
RecordStep == MsgStep /\ last'.type = "RECORD"
StateStep == MsgStep /\ last'.type = "STATE" /\ last'.value # None
Files == DOMAIN staging

\* C1: a RECORD message for a stream S, processed when no SCHEMA message for S
\* was processed earlier in the run, aborts the run and stages no row.
C1_RecordBeforeSchemaAborts ==
    [][(RecordStep /\ last'.hasStream /\ last'.stream \notin declared)
        => (pc' = "aborted" /\ staging' = staging)]_vars

\* C1 witness: in a second run, a RECORD with a record for a stream that only
\* the first run declared has aborted the run while that stream's file is staged.
C1_Witness ==
    /\ pc = "aborted" /\ nruns = 2
    /\ last.type = "RECORD" /\ last.hasStream /\ last.record # <<>>
    /\ last.stream \notin declared
    /\ CsvName(last.stream) \in Files

\* C2 as stated: at the end of a run without a fatal error the emitted
\* checkpoint is the value of the last STATE message processed, and nothing is
\* emitted if and only if no STATE message was seen.
C2_LastStateEmitted ==
    pc = "done" =>
        stdout = (IF lastState # None THEN <<[json |-> lastState[1]]>> ELSE <<>>)

\* C2 amended: at the end of a run without a fatal error the emitted checkpoint
\* is the value of the last STATE message processed when no RECORD was
\* processed after it; nothing is emitted if and only if no STATE message was
\* seen or a RECORD was processed after the last one.
C2_LastStateEmittedUnlessRecord ==
    pc = "done" =>
        stdout = (IF lastState # None /\ ~recordAfter
                  THEN <<[json |-> lastState[1]]>> ELSE <<>>)

\* C2 witness: a run of three or more messages ended by emitting the value of
\* its last STATE message.
C2_Witness ==
    /\ pc = "done" /\ lastState # None /\ ~recordAfter
    /\ lastState[1].bookmark = 2 /\ nmsgs >= 3
    /\ stdout = <<[json |-> lastState[1]]>>

\* C3 as stated: in a run that ends by emitting a checkpoint, no staged row is
\* left in the staging area at the moment of emission.
C3_EmittedAfterPromotion ==
    (pc = "done" /\ stdout # <<>>) => Files = {}

\* C3 amended: in a run that ends by emitting a checkpoint whose
\* currently_syncing is falsy, no staged file is left in the staging area at
\* the moment of emission.
C3_IdleCheckpointAfterPromotion ==
    (pc = "done" /\ stdout # <<>> /\ stdout[1].json.currently_syncing = "null")
        => Files = {}

\* C3 witness: a run that staged rows, flushed them and emitted an idle checkpoint.
C3_Witness ==
    /\ pc = "done" /\ stdout # <<>> /\ stdout[1].json.currently_syncing = "null"
    /\ durable # EmptyMap /\ dirExists

\* C4: a STATE message whose currently_syncing is truthy leaves the staging
\* area and the container unchanged.
C4_SyncingStateNoFlush ==
    [][(StateStep /\ last'.value[1].currently_syncing \notin {"null", "missing"})
        => (staging' = staging /\ durable' = durable /\ dirExists' = dirExists)]_vars

\* C4 witness: such a STATE message was processed while files were staged.
C4_Witness ==
    /\ last.type = "STATE" /\ last.value # None
    /\ last.value[1].currently_syncing = "users"
    /\ Files # {} /\ pc = "run"

\* C5: a STATE message whose currently_syncing is falsy, processed when the
\* staging directory exists and no storage call fails, uploads every staged
\* file and leaves the staging area without files.
C5_IdleStateFlushesAll ==
    [][(StateStep /\ last'.value[1].currently_syncing = "null" /\ dirExists
          /\ last'.storageOk)
        => (DOMAIN staging' = {} /\ last'.uploaded = Files)]_vars

\* C6: a flush that completes uploads each staged file under the name of its
\* own stream: every staged file is then a blob of that name holding its rows.
C6_BlobPerStream ==
    [][(StateStep /\ last'.value[1].currently_syncing = "null" /\ dirExists
          /\ last'.storageOk /\ pc' = "run")
        => \A path \in Files :
              path \in DOMAIN durable' /\ durable'[path] = staging[path]]_vars

\* C7: a RECORD whose record fails validation for a reason other than the
\* decimal-precision class aborts the run and is not staged.
C7_OtherValidationErrorFatal ==
    [][(RecordStep /\ last'.verdict = "other")
        => (pc' = "aborted" /\ staging' = staging)]_vars

\* The staging area after the record was staged as a valid record is
StagedWith(stream, record) ==
    LET path == CsvName(stream)
        old == IF path \in Files THEN staging[path] ELSE <<RecordKeys(record)>>
    IN Put(staging, path, Append(old, RecordValues(record)))

\* C8: a RECORD whose record fails validation with the decimal-precision class
\* does not abort the run, and the record is staged as a valid record is.
C8_PrecisionErrorSuppressed ==
    [][(RecordStep /\ last'.verdict = "precision" /\ last'.storageOk)
        => (pc' = "run" /\ staging' = StagedWith(last'.stream, last'.record))]_vars

\* C8 witness: a record with a value that is no multiple of 0.01 was staged
\* under a schema that declares the multiple, and the run goes on.
C8_Witness ==
    /\ last.type = "RECORD" /\ last.verdict = "precision" /\ pc = "run"
    /\ Len(staging[CsvName(last.stream)]) >= 3

\* The file a sequence of accepted records makes: the header of the first
\* record, then one row per record in arrival order.
FileOf(records) ==
    <<RecordKeys(records[1])>> \o [i \in 1..Len(records) |-> RecordValues(records[i])]

\* RECORD messages of other streams leave the file of a stream as it is
OtherFilesKept ==
    RecordStep =>
        \A s \in Streams \ {last'.stream} :
            /\ CsvName(s) \in DOMAIN staging' <=> CsvName(s) \in Files
            /\ CsvName(s) \in Files => staging'[CsvName(s)] = staging[CsvName(s)]

\* C9 as stated: the staging file of S holds the header of the first RECORD
\* for S since the last flush or the start of the run, then one row per
\* accepted RECORD for S since then, in arrival order; RECORD messages of
\* other streams do not change it.
C9_FileOfRecordsSinceFlush ==
    [][/\ \A s \in Streams :
             sinceFlush'[s] # <<>> =>
                 /\ CsvName(s) \in DOMAIN staging'
                 /\ staging'[CsvName(s)] = FileOf(sinceFlush'[s])
       /\ OtherFilesKept]_vars

\* C9 amended: the staging file of S holds the header of the first RECORD for
\* S accepted since the file was last absent, records of earlier runs whose
\* file was left in the staging area included, then one row per accepted
\* RECORD for S since then, in arrival order; RECORD messages of other
\* streams do not change it.
C9_FileOfRecordsSinceRemoved ==
    [][/\ \A s \in Streams :
             /\ CsvName(s) \in DOMAIN staging' <=> sinceRemoved'[s] # <<>>
             /\ CsvName(s) \in DOMAIN staging' =>
                    staging'[CsvName(s)] = FileOf(sinceRemoved'[s])
       /\ OtherFilesKept]_vars

\* C9 witness: a file with two rows of one stream, with a RECORD of the other
\* stream between them and the file of that stream beside it.
C9_Witness ==
    /\ Len(sinceRemoved["users"]) = 2 /\ Len(sinceRemoved["orders"]) = 1
    /\ last.type = "RECORD" /\ last.stream = "users"
    /\ sinceFlush["orders"] # <<>>
    /\ CsvName("users") \in Files /\ CsvName("orders") \in Files

\* C10: every data row lists the record's values in the key order of the
\* header: the i-th value of a row belongs to the i-th column of the header.
C10_RowsInHeaderOrder ==
    \A s \in Streams :
        CsvName(s) \in Files =>
            LET file == staging[CsvName(s)]
                header == file[1]
            IN \A i \in 1..Len(sinceRemoved[s]) :
                  LET record == sinceRemoved[s][i]
                      row == file[i + 1]
                  IN /\ Len(row) = Len(header)
                     /\ \A j \in 1..Len(header) :
                           /\ HasKey(record, header[j])
                           /\ row[j] = Lookup(record, header[j])

\* C5 without the runs that flush before their first RECORD
C5_AfterFirstRecord ==
    [][(StateStep /\ last'.value[1].currently_syncing = "null" /\ dirExists
          /\ last'.storageOk /\ filename # Unbound)
        => (DOMAIN staging' = {} /\ last'.uploaded = Files)]_vars

\* C11: after an accepted RECORD the tracked checkpoint is None, whatever
\* STATE value was tracked before, and stays None until the next STATE message.
C11_RecordResetsCheckpoint ==
    recordAfter => state = None

\* C11 witness: a STATE value was tracked, a RECORD was accepted and a later
\* message that is no STATE was processed: the checkpoint is still None.
C11_Witness ==
    /\ recordAfter /\ lastState # None /\ state = None
    /\ last.type \in {"SCHEMA", "ACTIVATE_VERSION"} /\ pc = "run"

\* The message has no well-formed structure
Malformed(ev) ==
    \/ ev.type \in {"unparseable", "missing", "UNKNOWN"}
    \/ ev.type \in {"SCHEMA", "RECORD"} /\ ~ev.hasStream
    \/ ev.type = "SCHEMA" /\ ~ev.hasKeyProperties

\* C12: an unparseable line, a message without type, a message of unknown
\* type, a SCHEMA or RECORD without stream and a SCHEMA without key_properties
\* abort the run, and no message is processed after an abort.
C12_MalformedMessageFatal ==
    [][/\ (MsgStep /\ Malformed(last')) => pc' = "aborted"
       /\ pc = "aborted" => ~MsgStep]_vars

\* C12 witness: a SCHEMA with a stream and without key_properties aborted the run.
C12_Witness ==
    /\ pc = "aborted" /\ last.type = "SCHEMA" /\ last.hasStream
    /\ ~last.hasKeyProperties

IsFlat(m) == \A i \in 1..Len(m) : m[i][2].t # "map"
HasList(m) == \E i \in 1..Len(m) : m[i][2].t = "list"
\* dict == dict: the same keys with the same values, in any order
DictEq(a, b) == {a[i] : i \in 1..Len(a)} = {b[i] : i \in 1..Len(b)}

\* C13 as stated: flatten(flatten(r)) equals flatten(r), and flatten(m) equals
\* m for every mapping m without mapping-typed values.
C13_FlattenIdempotent ==
    /\ fl_pc = "again" => DictEq(fl_again, fl_out)
    /\ (fl_pc \in {"flat", "again"} /\ IsFlat(fl_in)) => DictEq(fl_out, fl_in)

\* C13 amended: flatten(flatten(r)) equals flatten(r), and flatten(m) equals m
\* for every mapping m without mapping-typed and without list-typed values.
C13_FlattenIdempotentNoList ==
    /\ fl_pc = "again" => DictEq(fl_again, fl_out)
    /\ (fl_pc \in {"flat", "again"} /\ IsFlat(fl_in) /\ ~HasList(fl_in))
           => fl_out = fl_in

\* C13 witness: a nested record with a list was flattened to two columns or
\* more and flattened again.
C13_Witness ==
    /\ fl_pc = "again" /\ ~IsFlat(fl_in) /\ HasList(fl_in)
    /\ Len(fl_out) >= 2 /\ fl_again = fl_out

\* C14: a flush deletes a staged file only after the upload of that file
\* succeeded, and the files whose upload failed or was not reached stay staged
\* as they were; no other message deletes a staged file.
C14_DeletedOnlyAfterUpload ==
    [][/\ \A path \in Files :
             /\ path \notin DOMAIN staging' => (StateStep /\ path \in last'.uploaded)
             /\ (StateStep /\ path \notin last'.uploaded) =>
                    (path \in DOMAIN staging' /\ staging'[path] = staging[path])]_vars

\* C14 witness: a flush of two files whose second upload failed: the first
\* file is uploaded and gone, the second is still staged.
C14_Witness ==
    /\ last.type = "STATE" /\ last.failOp = "upload" /\ pc = "aborted"
    /\ Cardinality(last.uploaded) = 1 /\ Cardinality(Files) = 1
    /\ last.uploaded \cap Files = {}

\* C15: in a flush where only a deletion fails, after a successful upload,
\* every other staged file is still uploaded.
C15_FailedDeletionDoesNotBlock ==
    [][(StateStep /\ last'.failOp = "remove" /\ filename # Unbound)
        => last'.uploaded = Files]_vars

\* The registry of the run
Registry == <<schemas, validators, key_properties>>

\* C16: the registry changes through SCHEMA messages alone; the schema and the
\* validator of S are those of the last SCHEMA message for S, a SCHEMA for S
\* leaves the entries of other streams as they are, and a RECORD is validated
\* by the validator of the last SCHEMA message for its stream.
C16_RegistryLastWriteWins ==
    [][/\ (MsgStep /\ last'.type # "SCHEMA") => Registry' = Registry
       /\ (MsgStep /\ last'.type = "SCHEMA") =>
             \A s \in Streams \ {last'.stream} :
                /\ s \in DOMAIN schemas' <=> s \in DOMAIN schemas
                /\ s \in DOMAIN schemas =>
                      (schemas'[s] = schemas[s] /\ validators'[s] = validators[s])
       /\ DOMAIN schemas' = DOMAIN lastSchema' /\ DOMAIN validators' = DOMAIN lastSchema'
       /\ \A s \in DOMAIN lastSchema' :
             /\ schemas'[s] = lastSchema'[s]
             /\ validators'[s] = Draft4Validator(lastSchema'[s])
       /\ (RecordStep /\ last'.verdict \in {"ok", "precision", "other"}) =>
             last'.verdict \in Verdicts(Draft4Validator(lastSchema[last'.stream]),
                                        last'.record)]_vars

\* C16 witness: SCHEMA, RECORD, a flush and a RECORD again, in one run: the
\* stream declared before the flush accepted a record after it.
C16_Witness ==
    /\ nruns = 1 /\ nmsgs = 4 /\ pc = "run"
    /\ last.type = "RECORD" /\ promoted # {} /\ Files # {}

\* C17 as stated: a staging file of S exists only if a RECORD for S was
\* processed since the last flush, or since the start of the run.
C17_FileImpliesRecordSinceFlush ==
    \A s \in Streams : CsvName(s) \in Files => sinceFlush[s] # <<>>

\* C17 amended: a staging file of S exists only if a RECORD for S was accepted
\* since the file was last removed by a flush, in this run or in an earlier
\* run that left the file in the staging area.
C17_FileImpliesRecordSinceRemoved ==
    \A s \in Streams : CsvName(s) \in Files => sinceRemoved[s] # <<>>

\* C17 witness: a file staged by the first run is there in the second run,
\* which has accepted no RECORD for its stream.
C17_Witness ==
    \E s \in Streams :
        /\ CsvName(s) \in Files /\ nruns = 2 /\ pc = "run"
        /\ sinceFlush[s] = <<>> /\ durable # EmptyMap

\* C18: a run that was aborted, by a protocol error, a fatal validation error
\* or a failure during a flush, has emitted no checkpoint.
C18_NoCheckpointAfterAbort ==
    pc = "aborted" => stdout = <<>>

\* C18 witness: a flush that uploaded one file and then failed: the checkpoint
\* is tracked, files are still staged, nothing is emitted.
C18_Witness ==
    /\ pc = "aborted" /\ last.type = "STATE" /\ last.uploaded # {}
    /\ Files # {} /\ state # None /\ stdout = <<>>

\* C19: when every flush succeeded, every data row a flush promoted is in
\* some blob of the container.
C19_NoPromotedRowLost ==
    ~flushFailed =>
        \A row \in promoted :
            \E blob \in DOMAIN durable : row \in DataRows(durable[blob])

\* C20: a STATE message with currently_syncing falsy, processed before any
\* RECORD of the run while the staging area holds files and no storage call
\* fails, uploads the files and empties the staging area without raising.
C20_FlushBeforeFirstRecord ==
    [][(StateStep /\ last'.value[1].currently_syncing = "null" /\ dirExists
          /\ Files # {} /\ filename = Unbound /\ last'.storageOk)
        => (pc' = "run" /\ DOMAIN staging' = {} /\ last'.uploaded = Files)]_vars

====
